---- MODULE Spec2Model ----
(***************************************************************************)
(* Scripts/export_coreml.py: a straight-line script of three statements    *)
(*     from ultralytics import YOLO                  (line 18)             *)
(*     model = YOLO("yolo26n.pt")                    (line 20)             *)
(*     model.export(format="coreml", imgsz=640)      (line 21)             *)
(* run as a process (`python3 Scripts/export_coreml.py`).  The library the *)
(* script calls is not part of the repository: each library call is an     *)
(* opaque call that either returns or raises, and how it answers a given   *)
(* argument list is fixed by the environment the processes run in (env).   *)
(* The script has no try/except, no loop and no flags, so a raise ends the *)
(* process with the interpreter's status for an unhandled exception.       *)
(***************************************************************************)
EXTENDS Integers, Sequences, FiniteSets, TLC

\* ---------------------------------------------------------------- bounds
\* Script processes launched in one behaviour (over both invokers).
MaxRuns == 3

\* Two invokers, so that two invocations can overlap.
Procs == {"p1", "p2"}

\* ------------------------------------------------------- file names, args
File(s, e) == [stem |-> s, ext |-> e]
NoFile == File("", "")

\* Argument values the library may be handed (the script's and one other of each).
Paths == {File("yolo26n", "pt"), File("other", "pt")}
Formats == {"coreml", "onnx"}
Sizes == {640, 320}

\* line 20: YOLO("yolo26n.pt")
CkptPath == File("yolo26n", "pt")

\* line 21: format="coreml"
Format == "coreml"

\* A size other than the documented one.
ImgSzOther == CHOOSE z \in Sizes : z # 640

\* line 21: imgsz=640
ImgSz == 640

\* line 12, the documented CLI equivalent: yolo export model=yolo26n.pt format=coreml imgsz=640
CliModel == File("yolo26n", "pt")
CliFormat == "coreml"
CliImgsz == 640

\* Interpreter exit status: falling off the end of the module, and an unhandled exception.
ExitOK == 0

\* A handler that swallowed the exception would end the process normally.
ExitSwallowed == ExitOK

ExitUnhandled == 1

\* The script passes no output name: the artifact is named after the checkpoint
\* (docstring, lines 14-15: yolo26n.pt gives yolo26n.mlpackage).
OutputPath(ck) == File(ck.stem, "mlpackage")

\* What one export call is asked to produce (the artifact of a completed,
\* undisturbed export is a function of the call's arguments).
Content(ck, fmt, sz) == [ck |-> ck, fmt |-> fmt, sz |-> sz]
StaleContent == [ck |-> NoFile, fmt |-> "stale", sz |-> 0]
TornContent == [ck |-> NoFile, fmt |-> "torn", sz |-> 0]

Artifact(path, content) == [path |-> path, content |-> content]

\* A handler that swallowed the exception would carry on with line 21.
OnRaiseSwallowed == "export"

\* The statement executed after a statement raised: there is no handler, the process ends.
OnRaise == "exit"

\* The calls of one run, in program order.
LoadCall(ck) == <<"YOLO", ck, "", 0>>
ExportCallOf(h, fmt, sz) == <<"export", h, fmt, sz>>

VARIABLES
    env,        \* how the installed library answers: import, load per path, export per (format, size)
    fs,         \* artifacts on disk
    pc,         \* per invoker: "idle", "import", "load", "export", "writing", "exit"
    exitCode,   \* per invoker: exit status of the last run (-1 while none)
    handle,     \* per invoker: the `model` variable (NoFile while unbound)
    calls,      \* per invoker: library calls made by the current run
    target,     \* per invoker: path the export in progress writes
    overlap,    \* per invoker: another export wrote the same path during this one
    fsStart,    \* per invoker: fs when the current run was launched
    run,        \* per invoker: ordinal of the current run (0 before the first)
    log,        \* finished runs
    nruns       \* processes launched so far

vars == <<env, fs, pc, exitCode, handle, calls, target, overlap, fsStart, run, log, nruns>>

Envs ==
    [installed : BOOLEAN,
     loadOK : [Paths -> BOOLEAN],
     exportOK : [Formats \X Sizes -> BOOLEAN]]

Init ==
    /\ env \in Envs
    /\ fs \in {{}, {Artifact(OutputPath(CkptPath), StaleContent)}}
    /\ pc = [p \in Procs |-> "idle"]
    /\ exitCode = [p \in Procs |-> -1]
    /\ handle = [p \in Procs |-> NoFile]
    /\ calls = [p \in Procs |-> <<>>]
    /\ target = [p \in Procs |-> NoFile]
    /\ overlap = [p \in Procs |-> FALSE]
    /\ fsStart = [p \in Procs |-> {}]
    /\ run = [p \in Procs |-> 0]
    /\ log = {}
    /\ nruns = 0

\* An export that kept an existing artifact and wrote a new one beside it.
WrittenBeside(files, path, c) ==
    IF \E a \in files : a.path = path
    THEN files \cup {Artifact(File(path.stem, "mlpackage.new"), c)}
    ELSE files \cup {Artifact(path, c)}

\* The files after an export wrote `c` to `path`: the artifact replaces what was there.
Written(files, path, c) ==
    {a \in files : a.path # path} \cup {Artifact(path, c)}

\* An invoker that waited for a concurrent export to finish.
CanExportLocked(p) ==
    /\ pc[p] = "export"
    /\ \A q \in Procs \ {p} : pc[q] # "writing"

\* When process p may enter the export call: as soon as it reaches line 21; the
\* script takes no lock and waits for nothing.
CanExport(p) ==
    pc[p] = "export"

\* A finished run, as recorded at process exit.
Entry(p, code, after, wrote) ==
    [run |-> run[p], start |-> fsStart[p], exit |-> code, after |-> after, wrote |-> wrote,
     raced |-> overlap[p], calls |-> calls[p]]

\* Process p ends with status `code`, nothing written by the failing statement.
Terminate(p, code, callsNow) ==
    /\ pc' = [pc EXCEPT ![p] = OnRaise]
    /\ exitCode' = [exitCode EXCEPT ![p] = code]
    /\ calls' = [calls EXCEPT ![p] = callsNow]
    /\ log' = log \cup {[Entry(p, code, fs, NoFile) EXCEPT !.calls = callsNow]}

\* `python3 Scripts/export_coreml.py`: a fresh process, nothing kept from an earlier run.
Launch(p) ==
    /\ pc[p] \in {"idle", "exit"}
    /\ nruns < MaxRuns
    /\ nruns' = nruns + 1
    /\ pc' = [pc EXCEPT ![p] = "import"]
    /\ exitCode' = [exitCode EXCEPT ![p] = -1]
    /\ handle' = [handle EXCEPT ![p] = NoFile]
    /\ calls' = [calls EXCEPT ![p] = <<>>]
    /\ target' = [target EXCEPT ![p] = NoFile]
    /\ overlap' = [overlap EXCEPT ![p] = FALSE]
    /\ fsStart' = [fsStart EXCEPT ![p] = fs]
    /\ run' = [run EXCEPT ![p] = nruns + 1]
    /\ UNCHANGED <<env, fs, log>>

\* line 18: from ultralytics import YOLO
Import(p) ==
    /\ pc[p] = "import"
    /\ IF env.installed
       THEN /\ pc' = [pc EXCEPT ![p] = "load"]
            /\ UNCHANGED <<exitCode, calls, log>>
       ELSE Terminate(p, ExitUnhandled, calls[p])
    /\ UNCHANGED <<env, fs, handle, target, overlap, fsStart, run, nruns>>

\* line 20: model = YOLO("yolo26n.pt")
Load(p) ==
    /\ pc[p] = "load"
    /\ LET made == Append(calls[p], LoadCall(CkptPath)) IN
       IF env.loadOK[CkptPath]
       THEN /\ handle' = [handle EXCEPT ![p] = CkptPath]
            /\ calls' = [calls EXCEPT ![p] = made]
            /\ pc' = [pc EXCEPT ![p] = "export"]
            /\ UNCHANGED <<exitCode, log>>
       ELSE /\ Terminate(p, ExitUnhandled, made)
            /\ UNCHANGED handle
    /\ UNCHANGED <<env, fs, target, overlap, fsStart, run, nruns>>

\* line 21: model.export(format="coreml", imgsz=640), the call is entered
Export(p) ==
    /\ CanExport(p)
    /\ LET made == Append(calls[p], ExportCallOf(handle[p], Format, ImgSz))
           out == OutputPath(handle[p])
           others == {q \in Procs \ {p} : pc[q] = "writing" /\ target[q] = out}
       IN
       IF env.exportOK[<<Format, ImgSz>>]
       THEN /\ calls' = [calls EXCEPT ![p] = made]
            /\ pc' = [pc EXCEPT ![p] = "writing"]
            /\ target' = [target EXCEPT ![p] = out]
            /\ overlap' = [q \in Procs |->
                              IF q = p THEN others # {}
                              ELSE IF q \in others THEN TRUE ELSE overlap[q]]
            /\ UNCHANGED <<exitCode, log>>
       ELSE /\ Terminate(p, ExitUnhandled, made)
            /\ UNCHANGED <<target, overlap>>
    /\ UNCHANGED <<env, fs, handle, fsStart, run, nruns>>

\* line 21 returns: the artifact replaces whatever was at its path; the module
\* body ends and the process exits normally.
ExportReturn(p) ==
    /\ pc[p] = "writing"
    /\ \E c \in {Content(handle[p], Format, ImgSz)} \cup
                (IF overlap[p] THEN {TornContent} ELSE {}) :
         LET after == Written(fs, target[p], c) IN
         /\ fs' = after
         /\ log' = log \cup {Entry(p, ExitOK, after, target[p])}
    /\ pc' = [pc EXCEPT ![p] = "exit"]
    /\ exitCode' = [exitCode EXCEPT ![p] = ExitOK]
    /\ UNCHANGED <<env, handle, calls, target, overlap, fsStart, run, nruns>>

Next ==
    \E p \in Procs :
        \/ Launch(p)
        \/ Import(p)
        \/ Load(p)
        \/ Export(p)
        \/ ExportReturn(p)

Spec == Init /\ [][Next]_vars

\* ------------------------------------------------------------ properties

\* How the calls of a run were answered.
LoadReturned(cs) ==
    \E i \in 1..Len(cs) : cs[i][1] = "YOLO" /\ env.loadOK[cs[i][2]]
ExportReturned(cs) ==
    \E i \in 1..Len(cs) : cs[i][1] = "export" /\ env.exportOK[<<cs[i][3], cs[i][4]>>]
Raised(cs) ==
    \E i \in 1..Len(cs) :
        \/ cs[i][1] = "YOLO" /\ ~env.loadOK[cs[i][2]]
        \/ cs[i][1] = "export" /\ ~env.exportOK[<<cs[i][3], cs[i][4]>>]
CountOf(cs, name) == Cardinality({i \in 1..Len(cs) : cs[i][1] = name})

\* C4: a finished run has exit code 0 exactly when both the load and the export
\* returned, and a nonzero code whenever a step raised; a raise ends the process
\* at once (it is at exit with a nonzero code, the raising call was its last, and
\* no call was made twice).
C4_ExitCodeIffBothSucceeded ==
    /\ \A e \in log :
          /\ (e.exit = 0) <=> (LoadReturned(e.calls) /\ ExportReturned(e.calls))
          /\ Raised(e.calls) => e.exit # 0
    /\ \A p \in Procs :
          /\ pc[p] = "exit" =>
                ((exitCode[p] = 0) <=> (LoadReturned(calls[p]) /\ ExportReturned(calls[p])))
          /\ Raised(calls[p]) =>
                /\ pc[p] = "exit"
                /\ exitCode[p] # 0
                /\ CountOf(calls[p], "YOLO") <= 1
                /\ CountOf(calls[p], "export") <= 1

\* C4 witness: a run whose load returned and whose export raised has ended nonzero.
C4_Witness ==
    \E p \in Procs :
        /\ pc[p] = "exit"
        /\ LoadReturned(calls[p])
        /\ Raised(calls[p])
        /\ exitCode[p] = 1

\* C8: the calls of every run are a prefix of <<load, export>>: the load comes
\* first, the export is called at most once, only after the load returned, and
\* on the handle that load built.
CallsInOrder(cs) ==
    /\ Len(cs) <= 2
    /\ Len(cs) >= 1 => cs[1][1] = "YOLO"
    /\ Len(cs) = 2 =>
          /\ cs[2][1] = "export"
          /\ env.loadOK[cs[1][2]]
          /\ cs[2][2] = cs[1][2]
C8_LoadThenExportOnce ==
    /\ \A p \in Procs : CallsInOrder(calls[p])
    /\ \A p \in Procs : pc[p] \in {"export", "writing"} => handle[p] # NoFile
    /\ \A e \in log : CallsInOrder(e.calls)

\* C8 witness: one run has finished after load and export, another is inside its
\* one export call.
C8_Witness ==
    /\ \E e \in log : Len(e.calls) = 2 /\ e.exit = 0
    /\ \E p \in Procs : pc[p] = "writing" /\ Len(calls[p]) = 2

\* C9: two invocations whose exports are in progress write the same path, the
\* one named after the checkpoint, and nothing holds an invocation back while
\* another is writing: an invocation that reached its export call can enter it.
C9_ConcurrentExportsShareThePath ==
    /\ \A p, q \in Procs :
          (pc[p] = "writing" /\ pc[q] = "writing") =>
              (target[p] = target[q] /\ target[p] = OutputPath(CkptPath))
    /\ \A p \in Procs : pc[p] = "export" => ENABLED Export(p)

\* C9 witness: both invocations are writing the one path at the same time.
C9_Witness ==
    \E p, q \in Procs :
        /\ p # q
        /\ pc[p] = "writing"
        /\ pc[q] = "writing"
        /\ target[p] = target[q]
        /\ overlap[p]
        /\ overlap[q]

\* Two finished runs that did not write at the same time as another export.
Undisturbed(e1, e2) == ~e1.raced /\ ~e2.raced

\* C5: of two successful runs, one launched after the other and neither
\* disturbed by a concurrent export, the later leaves the files the earlier
\* left: one artifact, at the same path, with the content its inputs determine.
C5_RerunLeavesTheSameArtifact ==
    \A e1, e2 \in log :
        (e1.exit = 0 /\ e2.exit = 0 /\ e1.run < e2.run /\ Undisturbed(e1, e2)) =>
            /\ e2.after = e1.after
            /\ Cardinality(e2.after) = 1
            /\ e2.wrote = e1.wrote

\* C5 witness: two successful undisturbed runs, the first of which replaced a
\* stale artifact.
C5_Witness ==
    \E e1, e2 \in log :
        /\ e1.exit = 0
        /\ e2.exit = 0
        /\ e1.run < e2.run
        /\ Undisturbed(e1, e2)
        /\ e1.start # e1.after
        /\ e2.start = e1.after

\* The calls the documented CLI command stands for.
CliCalls ==
    {LoadCall(CliModel), ExportCallOf(CliModel, CliFormat, CliImgsz)}
OnlyCliCalls(cs) == \A i \in 1..Len(cs) : cs[i] \in CliCalls

\* C10: every library call of every run carries the three fixed values, which
\* are those of the CLI command in the docstring, and two undisturbed runs
\* launched on the same files make the same calls and end alike (exit code,
\* path written, files left).
C10_FixedArgumentsSameOutcome ==
    /\ \A p \in Procs : OnlyCliCalls(calls[p])
    /\ \A e \in log : OnlyCliCalls(e.calls)
    /\ \A e1, e2 \in log :
          (e1.start = e2.start /\ Undisturbed(e1, e2)) =>
              /\ e1.calls = e2.calls
              /\ e1.exit = e2.exit
              /\ e1.wrote = e2.wrote
              /\ e1.after = e2.after

\* C10 witness: two different runs launched on the same files have both loaded
\* and exported.
C10_Witness ==
    \E e1, e2 \in log :
        /\ e1.run # e2.run
        /\ e1.start = e2.start
        /\ Undisturbed(e1, e2)
        /\ Len(e1.calls) = 2
        /\ Len(e2.calls) = 2
        /\ e1.exit = 0

====
